---- MODULE Spec2Model ----
(***************************************************************************)
(* The SIR particle filter step localization_2d_pf and the Localization2D  *)
(* driver of python/sandbox/localization_2d.py.                            *)
(*                                                                         *)
(* Numbers.  Weights are exact rationals: a weight vector is a record      *)
(* [n |-> <<n_1..n_N>>, d |-> d] standing for w_i = n_i / d, kept in       *)
(* lowest terms so that equal vectors are equal records.  A weighted mean  *)
(* is kept in homogeneous form <<sum n_i*x_i, ..., sum n_i>>.  Positions   *)
(* are integers in units of linear_vel*dt and headings are quarter turns,  *)
(* for which cos and sin are exact.                                        *)
(***************************************************************************)
EXTENDS Integers, Sequences, FiniteSets

\* Largest number of time steps of a run (the constructor's `steps`).
MaxSteps == 4
\* Largest unnormalized likelihood a particle can score.
MaxScore == 2

StepCounts == 2..MaxSteps
ParticleCounts == {2, 3}
SkipValues == {2, 3}
AnySkipValues == {-2, 0, 2}
ThresValues == {2}
Scores == 0..MaxScore
\* The draws of the process noise and of the prior: particle 1 is perturbed
\* or no particle is.
NoDraw == <<0, 0, 0>>
NoiseVals == {NoDraw, <<1, 0, 1>>}
NoiseDraws(N) == {[i \in 1..N |-> IF i = 1 THEN e ELSE NoDraw] : e \in NoiseVals}

VARIABLES
    steps,          \* self._steps
    n_particles,    \* self._n_particles
    skip,           \* the skip the algorithm runs with
    neff_thres,     \* the neff_thres the algorithm runs with
    measurements,   \* self._measurements: per row "ok" or "malformed"
    particles,      \* self._particles[0..steps-1]
    weights,        \* self._weights[0..steps-1]
    trajectory,     \* self._trajectory[0..steps-1]
    idx,            \* self._idx
    complete,       \* self._complete
    last,           \* what the last __call__ did (history variable); its
                    \* slots are the indices the call read or wrote
                    \* (lines 191, 205, 236-247)
    algoCalls       \* the invocations of self._algo so far (history variable)

vars == <<steps, n_particles, skip, neff_thres, measurements, particles,
          weights, trajectory, idx, complete, last, algoCalls>>

----------------------------------------------------------------------------
\* Arithmetic helpers

RECURSIVE GCD(_, _)
GCD(a, b) == IF b = 0 THEN a ELSE GCD(b, a % b)

RECURSIVE SumTo(_, _)
\* s[1] + ... + s[i]
SumTo(s, i) == IF i = 0 THEN 0 ELSE s[i] + SumTo(s, i - 1)

SumSeq(s) == SumTo(s, Len(s))

RECURSIVE GcdTo(_, _)
GcdTo(s, i) == IF i = 0 THEN 0 ELSE GCD(s[i], GcdTo(s, i - 1))

\* The weight vector n/d in lowest terms.
Reduce(n, d) ==
    LET g == GCD(d, GcdTo(n, Len(n)))
    IN  IF g = 0 THEN [n |-> n, d |-> d]
        ELSE [n |-> [i \in DOMAIN n |-> n[i] \div g], d |-> d \div g]

\* (1 / N) * np.ones(N)
UniformWeights(N) == Reduce([i \in 1..N |-> 1], N)

\* np.zeros(N)
ZeroWeights(N) == [n |-> [i \in 1..N |-> 0], d |-> 1]

\* np.mod on integers: the sign of the divisor, and 0 for a zero divisor.
NpMod(a, b) ==
    IF b = 0 THEN 0
    ELSE IF b > 0 THEN a % b
    ELSE -((-a) % (-b))

----------------------------------------------------------------------------
\* The collaborators of the filter step

Cos4(th) == IF th = 0 THEN 1 ELSE IF th = 2 THEN -1 ELSE 0
Sin4(th) == IF th = 1 THEN 1 ELSE IF th = 3 THEN -1 ELSE 0

\* x' = x + v cos(th) dt + ex, y' = y + v sin(th) dt + ey,
\* th' = wrap(th + w dt + eth); noise[i] is particle i's draw.
transition_fcn_2d(P, linear_vel, angular_vel, noise) ==
    [i \in DOMAIN P |->
        <<P[i][1] + linear_vel * Cos4(P[i][3]) + noise[i][1],
          P[i][2] + linear_vel * Sin4(P[i][3]) + noise[i][2],
          (P[i][3] + angular_vel + noise[i][3]) % 4>>]

\* The likelihood of each particle, normalized to sum to 1; uniform when
\* every likelihood is zero.  scores[i] is the unnormalized likelihood the
\* Gaussian observation model gives particle i for this measurement.
likelihood_fcn_2d(P, measurement, scores) ==
    IF SumSeq(scores) = 0 THEN UniformWeights(Len(P))
    ELSE Reduce(scores, SumSeq(scores))

\* Systematic resampling.  With N particles and weights n_i/d, in units of
\* 1/(d*N): the offset u0 is in 0..d-1, point j is u0 + j*d, the cumulative
\* weight of particles 1..i is N*(n_1+...+n_i), and point j selects the
\* particle whose bracket holds it.
ResampleIndex(W, N, u) ==
    CHOOSE i \in 1..N :
        /\ N * SumTo(W.n, i) > u
        /\ \A k \in 1..(i - 1) : N * SumTo(W.n, k) <= u

systematic_resample(P, W, u0) ==
    LET N == Len(P)
    IN  [particles |-> [j \in 1..N |-> P[ResampleIndex(W, N, u0 + (j - 1) * W.d)]],
         weights   |-> UniformWeights(N)]

----------------------------------------------------------------------------
\* localization_2d_pf

\* np.average(P, axis=0, weights=W), homogeneous: <<sx, sy, sth, s>> is the
\* point (sx/s, sy/s, sth/s).
RECURSIVE WeightedSum(_, _, _, _)
WeightedSum(P, n, c, i) ==
    IF i = 0 THEN 0 ELSE n[i] * P[i][c] + WeightedSum(P, n, c, i - 1)

Average(P, W) ==
    <<WeightedSum(P, W.n, 1, Len(P)), WeightedSum(P, W.n, 2, Len(P)),
      WeightedSum(P, W.n, 3, Len(P)), SumSeq(W.n)>>


\* 1 / np.sum(w): the square forgotten.
NeffOfSumW(W) == <<W.d, SumSeq(W.n)>>
\* Line 81: 1 / np.sum(new_weights ** 2) as <<numerator, denominator>>; a zero
\* denominator is inf.
NeffOf(W) == <<W.d * W.d, SumSeq([i \in DOMAIN W.n |-> W.n[i] * W.n[i]])>>

\* Line 76: the measurement update runs when time_step is a multiple of skip.
UpdateBranch(time_step, skp) == NpMod(time_step, skp) = 0

\* The likelihood evaluated on the particles of the previous step.
LikelihoodInputStale(in_particles, new_particles) == in_particles
\* Line 78: the particle set handed to the likelihood model.
LikelihoodInput(in_particles, new_particles) == new_particles

\* Neff <= neff_thres.
NeedsResampleAtThreshold(neff, thres) == neff[2] # 0 /\ neff[1] <= thres * neff[2]
\* Line 82: Neff < neff_thres (inf is below no threshold).
NeedsResample(neff, thres) == neff[2] # 0 /\ neff[1] < thres * neff[2]

\* Only the particles taken from the resampler, the weights kept.
ResampledKeepingWeights(P, W, u0) ==
    [particles |-> systematic_resample(P, W, u0).particles, weights |-> W]
\* Lines 85-86: both the particles and the weights are replaced by the
\* resampler's.
Resampled(P, W, u0) == systematic_resample(P, W, u0)

\* The weights reset on a step without a measurement update.
CarriedWeightsReset(W) == UniformWeights(Len(W.n))
\* Line 89: without a measurement update the weights are passed through.
CarriedWeights(W) == W

\* Line 71: the estimate is taken right after the prediction, from the
\* predicted particles and the weights passed in.
Estimate(new_particles, in_weights) == Average(new_particles, in_weights)

\* The likelihood model rejects a measurement it cannot use.
LikelihoodRaises(measurement) == measurement # "ok"

NoWeights == [n |-> <<>>, d |-> 1]

\* One call of the step.  rnd holds the call's random draws: rnd.noise for
\* the transition model, rnd.scores standing for the measurement's likelihoods
\* and rnd.u0 for the resampler's offset.  The result holds what the call
\* returns (new_particles, new_weights, state) or that it raised, and what it
\* did on the way.
localization_2d_pf(in_particles, in_weights, measurement, linear_vel, angular_vel, time_step, thres, skp, rnd) ==
    LET predicted == transition_fcn_2d(in_particles, linear_vel, angular_vel,
                                       rnd.noise)
        state     == Estimate(predicted, in_weights)
        upd       == UpdateBranch(time_step, skp)
        lik_arg   == LikelihoodInput(in_particles, predicted)
        lik_w     == likelihood_fcn_2d(lik_arg, measurement, rnd.scores)
        neff      == NeffOf(lik_w)
        res       == NeedsResample(neff, thres)
        drawn     == Resampled(predicted, lik_w, rnd.u0)
        base      == [raised |-> FALSE, time_step |-> time_step,
                      in_particles |-> in_particles, in_weights |-> in_weights,
                      measurement |-> measurement,
                      predicted |-> predicted, state |-> state,
                      updated |-> upd, trans_calls |-> 1,
                      lik_calls |-> 0, lik_arg |-> <<>>, lik_weights |-> NoWeights,
                      neff |-> <<0, 0>>, res_calls |-> 0, resampled |-> FALSE,
                      new_particles |-> predicted, new_weights |-> in_weights]
    IN  IF ~upd
        THEN [base EXCEPT !.new_weights = CarriedWeights(in_weights)]
        ELSE IF LikelihoodRaises(measurement)
        THEN [base EXCEPT !.raised = TRUE, !.lik_calls = 1, !.lik_arg = lik_arg,
                          !.new_particles = <<>>, !.new_weights = NoWeights]
        ELSE IF ~res
        THEN [base EXCEPT !.lik_calls = 1, !.lik_arg = lik_arg,
                          !.lik_weights = lik_w, !.neff = neff,
                          !.new_weights = lik_w]
        ELSE [base EXCEPT !.lik_calls = 1, !.lik_arg = lik_arg,
                          !.lik_weights = lik_w, !.neff = neff,
                          !.res_calls = 1, !.resampled = TRUE,
                          !.new_particles = drawn.particles,
                          !.new_weights = drawn.weights]

----------------------------------------------------------------------------
\* Localization2D

\* v_true: a constant profile, one position unit per step.
LinearVel(k) == 1
\* omega_true: a varying profile, in quarter turns per step.
AngularVel(k) == k % 2

\* truth[0], the pose the prior is drawn around.
Truth0 == <<0, 0, 0>>

ZeroParticles(N) == [i \in 1..N |-> <<0, 0, 0>>]
\* A row of np.nan * np.ones((steps, 2)): 0/0.
NanRow == <<0, 0, 0>>

\* prior(truth[0], n_particles): the initial pose plus a draw per particle.
prior(pose, N, noise) ==
    [i \in 1..N |-> <<pose[1] + noise[i][1], pose[2] + noise[i][2],
                      (pose[3] + noise[i][3]) % 4>>]

\* np.ones(N), the 1/N forgotten.
InitWeightsOnes(N) == [n |-> [i \in 1..N |-> 1], d |-> 1]
\* Line 151: the initial weights.
InitWeights(N) == UniformWeights(N)

\* The filter run on every call.
UpdateGuardAlways(c) == TRUE
\* Line 234: the filter runs only until the run is complete.
UpdateGuard(c) == ~c

\* Line 221: the index wraps at the last slot.
WrapsAt(i, stps) == i = stps - 1

\* Line 247: state[:2], with the common denominator.
Position(state) == <<state[1], state[2], state[4]>>

NoCall == [kind |-> "init", frame |-> 0, slots |-> {}, wrote |-> {},
           idx_before |-> 0, complete_before |-> FALSE,
           r |-> [raised |-> FALSE, time_step |-> 0,
                  in_particles |-> <<>>, in_weights |-> NoWeights,
                  measurement |-> "ok",
                  predicted |-> <<>>, state |-> NanRow \o <<0>>,
                  updated |-> FALSE, trans_calls |-> 0,
                  lik_calls |-> 0, lik_arg |-> <<>>, lik_weights |-> NoWeights,
                  neff |-> <<0, 0>>, res_calls |-> 0, resampled |-> FALSE,
                  new_particles |-> <<>>, new_weights |-> NoWeights]]

InitWith(skips, rows, counts) ==
    /\ steps \in StepCounts
    /\ n_particles \in counts
    /\ skip \in skips
    /\ neff_thres \in ThresValues
    /\ measurements \in [0..(steps - 1) -> rows]
    /\ \E noise \in NoiseDraws(n_particles) :
         particles = [k \in 0..(steps - 1) |->
                        IF k = 0 THEN prior(Truth0, n_particles, noise)
                        ELSE ZeroParticles(n_particles)]
    /\ weights = [k \in 0..(steps - 1) |->
                    IF k = 0 THEN InitWeights(n_particles)
                    ELSE ZeroWeights(n_particles)]
    /\ trajectory = [k \in 0..(steps - 1) |-> NanRow]
    /\ idx = 0
    /\ complete = FALSE
    /\ last = NoCall
    /\ algoCalls = <<>>

\* A run with a valid configuration and well-formed measurements.
Init == InitWith(SkipValues, {"ok"}, ParticleCounts)

\* __call__(0): only draws.
CallFrame0 ==
    /\ last' = [NoCall EXCEPT !.kind = "frame0", !.slots = {idx},
                              !.idx_before = idx, !.complete_before = complete]
    /\ UNCHANGED <<steps, n_particles, skip, neff_thres, measurements,
                   particles, weights, trajectory, idx, complete, algoCalls>>

\* The index after update()'s increment and __call__'s wrap (lines 221-224, 250).
IndexAfter(i) == IF WrapsAt(i + 1, steps) THEN 0 ELSE i + 1
CompleteAfter(i) == complete \/ WrapsAt(i + 1, steps)

\* __call__(frame), frame # 0, while the run is not complete: update() runs
\* the algorithm on slot idx and stores its results in slot idx+1.
CallUpdate ==
    /\ UpdateGuard(complete)
    /\ \E noise \in NoiseDraws(n_particles) :
       \E scores \in (IF UpdateBranch(idx + 1, skip)
                      THEN [1..n_particles -> Scores]
                      ELSE {[i \in 1..n_particles |-> 0]}) :
       \E u0 \in (LET W == likelihood_fcn_2d(<<>>, "ok", scores)
                  IN  IF /\ UpdateBranch(idx + 1, skip)
                         /\ SumSeq(scores) # 0
                         /\ NeedsResample(NeffOf(W), neff_thres)
                      THEN 0..(W.d - 1) ELSE {0}) :
         LET r == localization_2d_pf(particles[idx], weights[idx],
                                     measurements[idx + 1], LinearVel(idx),
                                     AngularVel(idx), idx + 1, neff_thres, skip,
                                     [noise |-> noise, scores |-> scores, u0 |-> u0])
         IN  /\ ~r.raised
             /\ particles' = [particles EXCEPT ![idx + 1] = r.new_particles]
             /\ weights' = [weights EXCEPT ![idx + 1] = r.new_weights]
             /\ trajectory' = [trajectory EXCEPT ![idx + 1] = Position(r.state)]
             /\ idx' = IndexAfter(idx)
             /\ complete' = CompleteAfter(idx)
             /\ algoCalls' = Append(algoCalls,
                    [time_step |-> r.time_step, trans_calls |-> r.trans_calls,
                     lik_calls |-> r.lik_calls, res_calls |-> r.res_calls])
             /\ last' = [kind |-> "step", frame |-> 1,
                         slots |-> {idx, idx + 1},
                         wrote |-> {idx + 1},
                         idx_before |-> idx, complete_before |-> complete,
                         r |-> r]
    /\ UNCHANGED <<steps, n_particles, skip, neff_thres, measurements>>

\* __call__(frame), frame # 0, once the run is complete: update() only
\* advances the index.
CallIdle ==
    /\ ~UpdateGuard(complete)
    /\ idx' = IndexAfter(idx)
    /\ complete' = CompleteAfter(idx)
    /\ last' = [NoCall EXCEPT !.kind = "idle", !.frame = 1,
                              !.slots = {idx + 1},
                              !.idx_before = idx, !.complete_before = complete]
    /\ UNCHANGED <<steps, n_particles, skip, neff_thres, measurements,
                   particles, weights, trajectory, algoCalls>>

\* __call__(frame), frame # 0, when the algorithm raises: the exception leaves
\* update() before anything is stored or the index advanced.
CallRaise ==
    /\ UpdateGuard(complete)
    /\ \E noise \in NoiseDraws(n_particles) :
         LET r == localization_2d_pf(particles[idx], weights[idx],
                                     measurements[idx + 1], LinearVel(idx),
                                     AngularVel(idx), idx + 1, neff_thres, skip,
                                     [noise |-> noise,
                                      scores |-> [i \in 1..n_particles |-> 0],
                                      u0 |-> 0])
         IN  /\ r.raised
             /\ last' = [kind |-> "raised", frame |-> 1, slots |-> {idx},
                         wrote |-> {},
                         idx_before |-> idx, complete_before |-> complete,
                         r |-> r]
    /\ UNCHANGED <<steps, n_particles, skip, neff_thres, measurements,
                   particles, weights, trajectory, idx, complete, algoCalls>>

Next == CallFrame0 \/ CallUpdate \/ CallIdle

Spec == Init /\ [][Next]_vars

\* A run with any configuration and any measurements.
InitAny == InitWith(AnySkipValues, {"ok", "malformed"}, {2})

NextAny == CallFrame0 \/ CallUpdate \/ CallIdle \/ CallRaise

SpecAny == InitAny /\ [][NextAny]_vars

----------------------------------------------------------------------------
\* Properties

\* The last call ran the algorithm and stored what it returned.
Stepped == last.kind = "step"

\* Two homogeneous points are the same point.
SamePoint(a, b) ==
    /\ a[4] # 0
    /\ b[4] # 0
    /\ \A c \in 1..3 : a[c] * b[4] = b[c] * a[4]

\* Neff of W is below thres, is thres, from the weights themselves.
SumSquares(W) == SumSeq([i \in DOMAIN W.n |-> W.n[i] * W.n[i]])
NeffBelow(W, thres) == W.d * W.d < thres * SumSquares(W)
NeffIs(W, v) == W.d * W.d = v * SumSquares(W)

IsUniform(W) == \A i \in DOMAIN W.n : W.n[i] * Len(W.n) = W.d
IsSingleMass(W) ==
    \E i \in DOMAIN W.n : W.n[i] = W.d /\ \A k \in DOMAIN W.n \ {i} : W.n[k] = 0
IsNormalized(W, N) ==
    /\ Len(W.n) = N
    /\ W.d > 0
    /\ \A i \in 1..N : W.n[i] >= 0
    /\ SumSeq(W.n) = W.d

\* C1: on a step whose time_step is not a multiple of skip (skip > 0) the
\* returned and stored weights are the weights passed in, the returned and
\* stored particles are the transition model's output, and neither the
\* likelihood model nor the resampler is called.
C1_SkippedStepKeepsWeights ==
    (Stepped /\ skip > 0 /\ last.r.time_step % skip # 0) =>
        /\ last.r.new_weights = last.r.in_weights
        /\ weights[last.r.time_step] = weights[last.r.time_step - 1]
        /\ last.r.new_particles = last.r.predicted
        /\ particles[last.r.time_step] = last.r.predicted
        /\ last.r.lik_calls = 0
        /\ last.r.res_calls = 0

\* C1 witness: a step without measurement update that carried non-uniform
\* weights while the particles moved.
C1_Witness ==
    /\ Stepped /\ skip > 0 /\ last.r.time_step % skip # 0
    /\ ~IsUniform(last.r.in_weights)
    /\ last.r.new_weights = last.r.in_weights
    /\ last.r.new_particles # last.r.in_particles

\* C2: the estimate a step returns is the weighted mean of the particle set
\* the step returns taken with the weights the step returns.
C2_EstimateOfReturned ==
    Stepped => SamePoint(last.r.state,
                         Average(last.r.new_particles, last.r.new_weights))

\* C3: on a measurement-update step the particles are resampled if and only
\* if Neff of the new weights is strictly below neff_thres; otherwise the step
\* returns the predicted particles and the likelihood model's weights.
C3_ResampleIffBelowThreshold ==
    (Stepped /\ last.r.updated) =>
        /\ last.r.resampled <=> NeffBelow(last.r.lik_weights, neff_thres)
        /\ last.r.res_calls = (IF NeffBelow(last.r.lik_weights, neff_thres)
                               THEN 1 ELSE 0)
        /\ ~NeffBelow(last.r.lik_weights, neff_thres) =>
             /\ last.r.new_particles = last.r.predicted
             /\ last.r.new_weights = last.r.lik_weights
             /\ particles[last.r.time_step] = last.r.predicted
             /\ weights[last.r.time_step] = last.r.lik_weights

\* C3 witness: an update step whose Neff equals the threshold, with weights
\* that are not uniform, passed through without resampling.
C3_Witness ==
    /\ Stepped /\ last.r.updated
    /\ NeffIs(last.r.lik_weights, neff_thres)
    /\ ~IsUniform(last.r.lik_weights)
    /\ ~last.r.resampled
    /\ last.r.new_weights = last.r.lik_weights

\* C4: when a step resamples, the returned weights are 1/N each, the returned
\* particle set has the cardinality of the input, and every returned particle
\* is one of the predicted particles.
C4_ResampledIsUniformCopy ==
    (Stepped /\ last.r.resampled) =>
        /\ Len(last.r.new_weights.n) = n_particles
        /\ \A i \in 1..n_particles :
               last.r.new_weights.n[i] * n_particles = last.r.new_weights.d
        /\ Len(last.r.new_particles) = Len(last.r.in_particles)
        /\ Len(last.r.new_particles) = n_particles
        /\ \A j \in 1..n_particles : \E i \in 1..n_particles :
               last.r.new_particles[j] = last.r.predicted[i]
        /\ weights[last.r.time_step] = last.r.new_weights
        /\ particles[last.r.time_step] = last.r.new_particles

\* C4 witness: a resampling step with unequal positive weights over distinct
\* predicted particles, one of which was dropped.
C4_Witness ==
    /\ Stepped /\ last.r.resampled
    /\ \E i, k \in 1..n_particles :
          /\ last.r.lik_weights.n[i] > last.r.lik_weights.n[k]
          /\ last.r.lik_weights.n[k] > 0
          /\ last.r.predicted[i] # last.r.predicted[k]
    /\ last.r.new_particles # last.r.predicted

\* C5: from uniform initial weights, after any sequence of steps every weight
\* vector written so far, the current one included, has N entries, all
\* non-negative, that sum to 1.
C5_WeightsNormalized ==
    /\ idx \in 0..Len(algoCalls)
    /\ \A k \in 0..Len(algoCalls) : IsNormalized(weights[k], n_particles)

\* C5 witness: a run of three steps, one that carried the initial weights, one
\* that weighted and resampled, and one that carried the resampled weights.
C5_Witness ==
    /\ Len(algoCalls) = 3
    /\ algoCalls[1].lik_calls = 0
    /\ algoCalls[2].lik_calls = 1 /\ algoCalls[2].res_calls = 1
    /\ Stepped /\ ~last.r.updated
    /\ IsNormalized(weights[3], n_particles)


\* C6: a step given a malformed measurement fails, reporting an error to the
\* caller, and leaves the stored particles, weights and trajectory as they
\* were.  Stated for the runs with a valid skip, so that what refutes it is
\* the handling of the measurement alone.
C6_MalformedStepFails ==
    [][(/\ skip > 0
        /\ last'.kind \in {"step", "raised"}
        /\ last'.r.measurement # "ok") =>
           /\ last'.kind = "raised"
           /\ UNCHANGED <<particles, weights, trajectory>>]_vars

\* C7: under skip <= 0 no step runs its measurement-update branch or returns
\* particles and weights.
C7_NonPositiveSkipRejected ==
    skip <= 0 => (~Stepped /\ last.r.lik_calls = 0 /\ algoCalls = <<>>)

\* C8: Neff = 1/sum(w_i^2) of a normalized weight vector of N entries lies in
\* [1, N], is N for the weights 1/N each and for no others, and is 1 for a
\* single particle holding all the mass and for no others.
C8_NeffRange ==
    (last.r.lik_calls = 1 /\ ~last.r.raised) =>
        LET W == last.r.lik_weights
            neff == last.r.neff
        IN  /\ IsNormalized(W, n_particles)
            /\ neff[2] > 0
            /\ neff[1] >= neff[2]
            /\ neff[1] <= n_particles * neff[2]
            /\ IsUniform(W) <=> neff[1] = n_particles * neff[2]
            /\ IsSingleMass(W) <=> neff[1] = neff[2]

\* C8 witness: the Neff of a weight vector with all the mass on one particle
\* was computed to be 1.
C8_Witness ==
    /\ Stepped /\ last.r.lik_calls = 1
    /\ IsSingleMass(last.r.lik_weights)
    /\ last.r.neff[1] = last.r.neff[2]
    /\ n_particles = 3

C10_State ==
    /\ steps >= 2
    /\ idx \in 0..(steps - 1)
    /\ last.slots \subseteq 0..(steps - 1)
    /\ Len(algoCalls) <= steps - 1
    /\ \A i \in DOMAIN algoCalls : algoCalls[i].time_step = i
    /\ complete <=> Len(algoCalls) = steps - 1
    /\ ~complete => idx = Len(algoCalls)
    /\ Stepped =>
          /\ last.r.time_step = last.idx_before + 1
          /\ last.r.time_step = Len(algoCalls)
          /\ last.r.in_particles = particles[last.idx_before]
          /\ last.r.in_weights = weights[last.idx_before]
          /\ particles[last.r.time_step] = last.r.new_particles
          /\ weights[last.r.time_step] = last.r.new_weights
          /\ trajectory[last.r.time_step] = Position(last.r.state)

\* C10, its step part: a call with frame 0 runs no step and changes neither
\* the index nor the stored data; once complete, nothing stored is written
\* again and the algorithm is not run again; a step writes one slot only.
C10_Step ==
    /\ last'.kind = "frame0" =>
          UNCHANGED <<idx, complete, particles, weights, trajectory, algoCalls>>
    /\ complete =>
          /\ complete'
          /\ UNCHANGED <<particles, weights, trajectory, algoCalls>>
    /\ \A k \in 0..(steps - 1) :
          (k # idx + 1 \/ last'.kind # "step") =>
              /\ particles'[k] = particles[k]
              /\ weights'[k] = weights[k]
              /\ trajectory'[k] = trajectory[k]

\* C10: for a run with steps >= 2 driven by any sequence of calls, the index
\* and the slots stay in range, the algorithm runs once per time index in
\* increasing order on the previous slot, frame 0 changes nothing, and
\* nothing is written once the run is complete.
C10_Lifecycle == [](C10_State) /\ [][C10_Step]_vars

\* C10 witness: a run of the largest length is complete, and calls went on
\* after it wrapped.
C10_Witness ==
    /\ complete
    /\ steps = MaxSteps
    /\ Len(algoCalls) = steps - 1
    /\ last.kind = "idle"
    /\ idx = steps - 2

====
